---- MODULE Spec2Model ----
(***************************************************************************)
(* A model of rust-memtester: the suite driver (Memtester::run and         *)
(* run_tests), the timeout checker, the thirteen memtests and the memory   *)
(* locking loop.                                                           *)
(*                                                                         *)
(* Sizes are scaled so that the state space is finite and small: a word is *)
(* WORD_BITS wide instead of 64 bits, a u64 counts up to U64_MAX, and the  *)
(* minimum region is MIN_MEMORY_LEN words instead of 512.  The loop        *)
(* constants of the tests (16, 64 and 256 runs, first checkpoint 8) keep   *)
(* their values.                                                           *)
(***************************************************************************)
EXTENDS Integers, Sequences, FiniteSets, TLC

VARIABLES
    cfg,         \* the Memtester: test_types, timeout, mem_lock_mode, allow_*
    env,         \* what the platform answers: num_cpus, the mlock limits
    memory,      \* the caller's region: memory[i + 1] is word i
    fault,       \* the region's hardware fault: a stuck word, or none
    now,         \* the last value Instant::now() returned
    pc,          \* where run() is
    deadline,    \* run()'s `deadline`
    slice_len,   \* the length of `memory` as run() shadows it (after shrinking)
    guard,       \* the MemLockGuard run() holds
    sys,         \* the calls run() made to the platform: mlock, munlock
    test_idx,    \* the position of run_tests' for loop in test_types
    workers,     \* the threads running the current test (one when single threaded)
    joined,      \* how many handles the fold has consumed
    acc,         \* the fold's accumulator, then `test_result`
    reports,     \* run_tests' `reports`
    ret          \* what run() returned

vars == <<cfg, env, memory, fault, now, pc, deadline, slice_len, guard, sys,
          test_idx, workers, joined, acc, reports, ret>>

----------------------------------------------------------------------------
(* Bounds of the model *)

\* the width of a machine word (usize), scaled from 64
WORD_BITS == 8
\* the largest u64, scaled from 2^64 - 1
U64_MAX == 65535
\* lib.rs:79 sets 512; scaled
MIN_MEMORY_LEN == 4
\* the clock answers 0, 1 or MaxTime
MaxTime == 8
\* a timeout no run of the model reaches
LongTimeout == 1000
\* num_cpus::get() answers 1 .. MaxCpus
MaxCpus == 3

(* Constants of the program *)
FIRST_CHECKPOINT == 8
OWN_ADDRESS_NUM_RUNS == 16
SOLID_BITS_NUM_RUNS == 64
CHECKERBOARD_NUM_RUNS == 64
BLOCK_SEQ_NUM_RUNS == 256

WordMod == 2 ^ WORD_BITS
ALL_ONES == WordMod - 1
Word == 0 .. ALL_ONES
\* the longest region
MaxLen == MIN_MEMORY_LEN + 1
\* size_of::<usize>() in bytes, scaled with the word
WORD_SIZE == 1
\* memory.as_mut_ptr() of the caller's region
BASE_PTR == 16
\* the words of a page (page_size / size_of::<usize>()), scaled from 512
USIZE_PER_PAGE == 2
\* the longest region handed to the locking loop
LongLen == MIN_MEMORY_LEN + 3

----------------------------------------------------------------------------
(* Words *)

Not(a) == ALL_ONES - a

RECURSIVE BitOp(_, _, _, _)
BitOp(op, a, b, n) ==
    IF n = 0 THEN 0
    ELSE LET x == a % 2
             y == b % 2
             r == CASE op = "xor" -> (x + y) % 2
                    [] op = "or" -> IF x + y > 0 THEN 1 ELSE 0
                    [] op = "and" -> x * y
         IN r + 2 * BitOp(op, a \div 2, b \div 2, n - 1)

Xor(a, b) == BitOp("xor", a, b, WORD_BITS)
Or(a, b) == BitOp("or", a, b, WORD_BITS)
And(a, b) == BitOp("and", a, b, WORD_BITS)
WrappingSub(a, b) == (a - b + WordMod) % WordMod
WrappingMul(a, b) == (a * b) % WordMod
WrappingAdd(a, b) == (a + b) % WordMod

\* write_bytes(&mut word, byte, 1): every byte of the word is `byte`
FillBytes(byte) == (byte * 257) % WordMod

\* `ptr as usize` for `base_ptr.add(i)`
AddressOf(i) == BASE_PTR + i * WORD_SIZE

----------------------------------------------------------------------------
(* The region.  A hardware fault is a stuck word: fault.at is its index     *)
(* plus one (0: the region is healthy) and it holds fault.val for ever.     *)

NoFault == [at |-> 0, val |-> 0]
Healthy == fault.at = 0

\* read_volatile(base_ptr.add(i))
vread(mem, i) == mem[i + 1]

\* a bug: the write is lost
vwrite_lost(mem, i, v) == mem
\* write_volatile(base_ptr.add(i), v)
vwrite(mem, i, v) == IF fault.at = i + 1 THEN mem ELSE [mem EXCEPT ![i + 1] = v]

----------------------------------------------------------------------------
(* Result<MemtestOutcome, MemtestError>, as one record shape *)

NoFailure == [type |-> "", address1 |-> 0, value1 |-> 0, address2 |-> 0, value2 |-> 0]
Pass == [class |-> "Pass", failure |-> NoFailure, cause |-> ""]
Fail(f) == [class |-> "Fail", failure |-> f, cause |-> ""]
Timeout == [class |-> "Timeout", failure |-> NoFailure, cause |-> ""]
Other(e) == [class |-> "Other", failure |-> NoFailure, cause |-> e]
\* a test that has not returned
NoResult == [class |-> "", failure |-> NoFailure, cause |-> ""]

\* a bug: the value read is reported as the expected one
UnexpectedValue_swapped(address, expected, actual) ==
    [type |-> "UnexpectedValue", address1 |-> address, value1 |-> actual,
     address2 |-> address, value2 |-> expected]
\* MemtestFailure::UnexpectedValue { address, expected, actual }
UnexpectedValue(address, expected, actual) ==
    [type |-> "UnexpectedValue", address1 |-> address, value1 |-> expected,
     address2 |-> address, value2 |-> actual]

\* a bug: the two words of the pair change places
MismatchedValues_swapped(a1, v1, a2, v2) ==
    [type |-> "MismatchedValues", address1 |-> a2, value1 |-> v2,
     address2 |-> a1, value2 |-> v1]
\* MemtestFailure::MismatchedValues { address1, value1, address2, value2 }
MismatchedValues(a1, v1, a2, v2) ==
    [type |-> "MismatchedValues", address1 |-> a1, value1 |-> v1,
     address2 |-> a2, value2 |-> v2]

----------------------------------------------------------------------------
(* TimeoutChecker.  num_checks_completed and last_progress_fraction only    *)
(* feed the trace output and are left out.                                  *)

\* TimeoutChecker::new(deadline); test_start_time is a placeholder until init
TcNew(dl) ==
    [deadline |-> dl, test_start_time |-> 0, expected_iter |-> 0,
     completed_iter |-> 0, checkpoint |-> 1]

\* a bug: a short test starts with its checkpoint at 0
TcInit_checkpoint_0(tc, expected_iter, t) ==
    [tc EXCEPT !.test_start_time = t,
               !.expected_iter = expected_iter,
               !.checkpoint = IF expected_iter > FIRST_CHECKPOINT
                              THEN FIRST_CHECKPOINT ELSE 0]

\* TimeoutChecker::init(expected_iter), Instant::now() answering t
TcInit(tc, expected_iter, t) ==
    [tc EXCEPT !.test_start_time = t,
               !.expected_iter = expected_iter,
               !.checkpoint = IF expected_iter > FIRST_CHECKPOINT
                              THEN FIRST_CHECKPOINT ELSE 1]

\* a Duration from a float: rounded to the clock's unit
RoundDiv(a, b) == (2 * a + b) \div (2 * b)

\* check_time's duration_until_next_checkpoint at time t
DurationUntilNextCheckpoint(tc, t) == RoundDiv(3 * (tc.deadline - t), 4)

\* check_time's avg_iter_duration at time t (completed_iter > 0)
AvgIterDuration(tc, t) == RoundDiv(t - tc.test_start_time, tc.completed_iter)

\* check_time's iter_until_next_checkpoint: the float quotient cast to u64
\* (infinite: the largest u64; NaN: 0), then at least 1
IterUntilNextCheckpoint(tc, t) ==
    LET d == DurationUntilNextCheckpoint(tc, t)
        a == AvgIterDuration(tc, t)
        x == IF a = 0
             THEN (IF d = 0 THEN 0 ELSE U64_MAX)
             ELSE (IF d \div a > U64_MAX THEN U64_MAX ELSE d \div a)
    IN IF x > 1 THEN x ELSE 1

\* check_time's `current_time >= self.deadline`
deadline_strictly_passed(tc, t) == t > tc.deadline
deadline_passed(tc, t) == t >= tc.deadline

\* whether `self.checkpoint += iter_until_next_checkpoint` overflows at time t
CheckpointOverflows(tc, t) ==
    /\ tc.completed_iter >= tc.checkpoint
    /\ ~deadline_passed(tc, t)
    /\ tc.completed_iter > 0
    /\ tc.checkpoint + IterUntilNextCheckpoint(tc, t) > U64_MAX

\* TimeoutChecker::check_time(), Instant::now() answering t.  An overflowing
\* addition panics in a build with overflow checks and wraps in one without:
\* `panics` says which.  Dividing a Duration by 0.0 panics.
CheckTime(tc, t, panics) ==
    IF deadline_passed(tc, t) THEN [tc |-> tc, res |-> "Timeout"]
    ELSE IF tc.completed_iter = 0 THEN [tc |-> tc, res |-> "Panic"]
    ELSE LET sum == tc.checkpoint + IterUntilNextCheckpoint(tc, t)
         IN IF sum > U64_MAX /\ panics THEN [tc |-> tc, res |-> "Panic"]
            ELSE [tc |-> [tc EXCEPT !.checkpoint = sum % (U64_MAX + 1),
                                    !.completed_iter = @ + 1],
                  res |-> "Ok"]

\* TimeoutChecker::check()
Check(tc, t, panics) ==
    IF tc.completed_iter < tc.checkpoint
    THEN [tc |-> [tc EXCEPT !.completed_iter = @ + 1], res |-> "Ok"]
    ELSE CheckTime(tc, t, panics)

\* whether check() reads the clock
ReadsClock(tc) == tc.completed_iter >= tc.checkpoint

----------------------------------------------------------------------------
(* The memtests.  A thread running a test is a record: its chunk (lo, len), *)
(* its place in the test (pc, run, j, val), its TimeoutChecker and, once    *)
(* it has returned, its result.  One step of a test is one iteration of its *)
(* inner loop: the check() call and the accesses that follow it.            *)

MemtestKind ==
    {"OwnAddressBasic", "OwnAddressRepeat", "RandomVal", "Xor", "Sub", "Mul",
     "Div", "Or", "And", "SeqInc", "SolidBits", "Checkerboard", "BlockSeq"}

\* the tests built on test_two_regions
ReadModifyWrite == {"Xor", "Sub", "Mul", "Div", "Or", "And"}
\* the tests that go through the region word by word
SingleRegion == {"OwnAddressBasic", "OwnAddressRepeat"}
\* the tests that call ensure_two_regions_mem_len
Ensures == ReadModifyWrite \cup {"SeqInc", "SolidBits", "Checkerboard", "BlockSeq"}
\* the tests that drop the outcome of compare_regions (`compare_regions(..)?;`)
DropsCompare == {"SolidBits", "Checkerboard", "BlockSeq"}

\* the values random() answers
RandomVals == {0, 1, 3, ALL_ONES}
\* the values Instant::now() answers
Clock == {0, 1, MaxTime}

\* the number of outer runs of a test
NumRuns(kind) ==
    CASE kind = "OwnAddressRepeat" -> OWN_ADDRESS_NUM_RUNS
      [] kind = "SolidBits" -> SOLID_BITS_NUM_RUNS
      [] kind = "Checkerboard" -> CHECKERBOARD_NUM_RUNS
      [] kind = "BlockSeq" -> BLOCK_SEQ_NUM_RUNS
      [] OTHER -> 1

\* a bug: the loops of the own-address tests run over 0 ..= len
Items_one_past(kind, len) == IF kind \in SingleRegion THEN len + 1 ELSE len \div 2
\* the length of each inner loop: `len`, or `half_len`
Items(kind, len) == IF kind \in SingleRegion THEN len ELSE len \div 2

\* a bug: the read loops are not counted
ExpectedIter_write_loops(kind, len) == Items(kind, len) * NumRuns(kind)

\* the count handed to init(); -1 when it overflows a u64
ExpectedIter(kind, len) ==
    LET n == Items(kind, len) * 2 * NumRuns(kind)
    IN IF n > U64_MAX THEN -1 ELSE n

\* ensure_two_regions_mem_len
ensure_two_regions_mem_len(len) == len >= 2

RECURSIVE mem_reset_from(_, _, _, _)
mem_reset_from(mem, lo, len, i) ==
    IF i >= len THEN mem
    ELSE mem_reset_from(vwrite(mem, lo + i, ALL_ONES), lo, len, i + 1)

\* a bug: only the first half of the chunk is reset
mem_reset_first_half(mem, lo, len) == mem_reset_from(mem, lo, len \div 2, 0)

\* a bug: only the two halves are reset
mem_reset_halves(mem, lo, len) == mem_reset_from(mem, lo, 2 * (len \div 2), 0)

\* mem_reset(memory) on the chunk at lo
mem_reset(mem, lo, len) == mem_reset_from(mem, lo, len, 0)

\* test_own_address_repeat's write_val closure
write_val(address, i, j) == IF (i + j) % 2 = 0 THEN address ELSE Not(address)

\* a bug: the runs start from the other value of each pair
RunVal_odd_first(kind, i, val) ==
    CASE kind = "SolidBits" -> IF i % 2 = 0 THEN Not(0) ELSE 0
      [] kind = "Checkerboard" ->
            IF i % 2 = 0 THEN Not(FillBytes(85)) ELSE FillBytes(85)
      [] kind = "BlockSeq" -> FillBytes(i)
      [] OTHER -> val
\* `val` at the start of outer run i
RunVal(kind, i, val) ==
    CASE kind = "SolidBits" -> IF i % 2 = 0 THEN 0 ELSE Not(0)
      [] kind = "Checkerboard" ->
            IF i % 2 = 0 THEN FillBytes(85) ELSE Not(FillBytes(85))
      [] kind = "BlockSeq" -> FillBytes(i)
      [] OTHER -> val

\* the closure a read-modify-write test hands to test_two_regions, on one cell
Update(kind, c, v) ==
    CASE kind = "Xor" -> Xor(v, c)
      [] kind = "Sub" -> WrappingSub(c, v)
      [] kind = "Mul" -> WrappingMul(c, v)
      [] kind = "Div" -> c \div (IF v = 0 THEN 1 ELSE v)
      [] kind = "Or" -> Or(c, v)
      [] kind = "And" -> And(c, v)

\* a thread about to call test(chunk, &mut TimeoutChecker::new(deadline))
NewWorker(lo, len, dl) ==
    [lo |-> lo, len |-> len, pc |-> "start", run |-> 0, j |-> 0, val |-> 0,
     tc |-> TcNew(dl), result |-> NoResult, checks |-> 0, accesses |-> {}]

Returned(w, result) == [w EXCEPT !.pc = "done", !.result = result]

\* where a test goes once an inner loop is over: the read loop after the
\* write loop, the next run after the read loop, Ok(Pass) after the last run
AfterWrite(kind, w) == [w EXCEPT !.pc = "read", !.j = 0]
AfterRead(kind, w) ==
    IF w.run + 1 >= NumRuns(kind) THEN Returned(w, Pass)
    ELSE [w EXCEPT !.pc = "write", !.j = 0, !.run = @ + 1,
                   !.val = RunVal(kind, w.run + 1, w.val)]

\* A test from its call to its first check(): the length check, mem_reset,
\* init() (Instant::now() answering t) and, for SeqInc, the draw r.
TestStart(kind, w, mem, t, r) ==
    IF kind \in Ensures /\ ~ensure_two_regions_mem_len(w.len)
    THEN [w |-> Returned(w, Other("Insufficient memory length for two-regions memtest")),
          mem |-> mem]
    ELSE LET mem1 == IF kind \in ReadModifyWrite
                     THEN mem_reset(mem, w.lo, w.len) ELSE mem
             touched == IF kind \in ReadModifyWrite
                        THEN w.lo .. (w.lo + w.len - 1) ELSE {}
             n == ExpectedIter(kind, w.len)
         IN IF n < 0
            THEN [w |-> Returned([w EXCEPT !.accesses = touched],
                                 Other("Total number of iterations overflowed")),
                  mem |-> mem1]
            ELSE LET w1 == [w EXCEPT !.tc = TcInit(w.tc, n, t),
                                     !.accesses = touched,
                                     !.pc = "write",
                                     !.val = IF kind = "SeqInc" THEN r
                                             ELSE RunVal(kind, 0, 0)]
                 IN [w |-> IF Items(kind, w.len) = 0 THEN Returned(w1, Pass)
                           ELSE w1,
                     mem |-> mem1]

\* the accesses of one iteration of a write loop, after its check()
WriteIter(kind, w, mem, r) ==
    LET j == w.j
        half == w.len \div 2
        p1 == w.lo + j
        p2 == w.lo + half + j
        v == CASE kind = "OwnAddressBasic" -> AddressOf(p1)
               [] kind = "OwnAddressRepeat" -> write_val(AddressOf(p1), w.run, j)
               [] kind = "RandomVal" -> r
               [] kind = "SeqInc" -> WrappingAdd(w.val, j)
               [] kind \in {"SolidBits", "Checkerboard"} -> Not(w.val)
               [] kind = "BlockSeq" -> w.val
               [] OTHER -> 0
        mem1 == CASE kind \in SingleRegion -> vwrite(mem, p1, v)
                  [] kind \in ReadModifyWrite ->
                        LET m == vwrite(mem, p1, Update(kind, vread(mem, p1), r))
                        IN vwrite(m, p2, Update(kind, vread(m, p2), r))
                  [] OTHER -> vwrite(vwrite(mem, p1, v), p2, v)
        w1 == [w EXCEPT !.j = j + 1,
                        !.val = IF kind \in {"SolidBits", "Checkerboard"}
                                THEN Not(w.val) ELSE @,
                        !.accesses = @ \cup (IF kind \in SingleRegion
                                             THEN {p1} ELSE {p1, p2})]
    IN [w |-> IF j + 1 >= Items(kind, w.len) THEN AfterWrite(kind, w1) ELSE w1,
        mem |-> mem1]

\* the accesses of one iteration of a read loop (the second loop of the
\* own-address tests, compare_regions for the others), after its check()
ReadIter(kind, w, mem) ==
    LET j == w.j
        half == w.len \div 2
        p1 == w.lo + j
        p2 == w.lo + half + j
        single == kind \in SingleRegion
        expected == IF kind = "OwnAddressBasic" THEN AddressOf(p1)
                    ELSE write_val(AddressOf(p1), w.run, j)
        val1 == vread(mem, p1)
        val2 == IF single THEN expected ELSE vread(mem, p2)
        failure == IF single THEN UnexpectedValue(AddressOf(p1), expected, val1)
                   ELSE MismatchedValues(AddressOf(p1), val1, AddressOf(p2), val2)
        w1 == [w EXCEPT !.j = j + 1,
                        !.accesses = @ \cup (IF single THEN {p1} ELSE {p1, p2})]
    IN [w |-> IF val1 # val2
              THEN (IF kind \in DropsCompare THEN AfterRead(kind, w1)
                    ELSE Returned(w1, Fail(failure)))
              ELSE (IF j + 1 >= Items(kind, w.len) THEN AfterRead(kind, w1)
                    ELSE w1),
        mem |-> mem]

\* One iteration of the current inner loop: check(), Instant::now()
\* answering t, then the accesses.
TestIter(kind, w, mem, t, r, panics) ==
    LET c == Check(w.tc, t, panics)
        w1 == [w EXCEPT !.tc = c.tc, !.checks = @ + 1]
    IN CASE c.res = "Timeout" -> [w |-> Returned(w1, Timeout), mem |-> mem]
         [] c.res = "Panic" -> [w |-> [w1 EXCEPT !.pc = "panicked"], mem |-> mem]
         [] OTHER -> IF w.pc = "write" THEN WriteIter(kind, w1, mem, r)
                     ELSE ReadIter(kind, w1, mem)

\* whether the step of w draws from random()
Draws(kind, w) ==
    \/ w.pc = "start" /\ kind = "SeqInc"
    \/ w.pc = "write" /\ kind \in ReadModifyWrite \cup {"RandomVal"}

\* whether the step of w reads the clock
StepReadsClock(kind, w) ==
    \/ w.pc = "start"
    \/ w.pc \in {"write", "read"} /\ ReadsClock(w.tc)

\* a step of a test
TestStep(kind, w, mem, t, r, panics) ==
    IF w.pc = "start" THEN TestStart(kind, w, mem, t, r)
    ELSE TestIter(kind, w, mem, t, r, panics)

----------------------------------------------------------------------------
(* MemtestReportList *)

\* MemtestReport::new
MemtestReport(test_type, outcome) == [test_type |-> test_type, outcome |-> outcome]

\* a bug: only the first report is looked at
all_pass_first_only(rs) == rs = <<>> \/ rs[1].outcome.class = "Pass"

RECURSIVE all_from(_, _)
all_from(rs, i) ==
    IF i > Len(rs) THEN TRUE
    ELSE IF rs[i].outcome.class = "Pass" THEN all_from(rs, i + 1)
    ELSE FALSE

\* MemtestReportList::all_pass: Iterator::all over the reports, in order
all_pass(rs) == all_from(rs, 1)

----------------------------------------------------------------------------
(* The reduction of the threads' results *)

\* a bug: a failure outranks a timeout
fold_step_fail_over_timeout(a, result) ==
    CASE a.class = "Other" -> a
      [] result.class = "Other" -> result
      [] a.class = "Fail" -> a
      [] result.class = "Fail" -> result
      [] a.class = "Timeout" -> Timeout
      [] result.class = "Timeout" -> Timeout
      [] OTHER -> Pass

\* a bug: the thread joined last wins a tie
fold_step_last_wins(a, result) ==
    CASE result.class = "Other" -> result
      [] a.class = "Other" -> a
      [] result.class = "Timeout" -> Timeout
      [] a.class = "Timeout" -> Timeout
      [] result.class = "Fail" -> result
      [] a.class = "Fail" -> a
      [] OTHER -> Pass

\* the closure of run_tests' fold
fold_step(a, result) ==
    CASE a.class = "Other" -> a
      [] result.class = "Other" -> result
      [] a.class = "Timeout" -> Timeout
      [] result.class = "Timeout" -> Timeout
      [] a.class = "Fail" -> a
      [] result.class = "Fail" -> result
      [] OTHER -> Pass

\* a bug: a thread that panicked counts as one that passed
join_result_panic_passes(w) == IF w.pc = "panicked" THEN Pass ELSE w.result
\* handle.join().unwrap_or(Err(Other("Thread panicked")))
join_result(w) == IF w.pc = "panicked" THEN Other("Thread panicked") ELSE w.result

\* a bug: every chunk after the first starts one word early
ChunkOffsets_one_early(len, chunk_size) ==
    [k \in 1 .. (len \div chunk_size) |->
        IF k = 1 THEN 0 ELSE (k - 1) * chunk_size - 1]

\* the slices chunks_exact_mut(chunk_size) yields from a region of len words:
\* their offsets
ChunkOffsets(len, chunk_size) ==
    [k \in 1 .. (len \div chunk_size) |-> (k - 1) * chunk_size]

Min(a, b) == IF a < b THEN a ELSE b

----------------------------------------------------------------------------
(* Memtester::run *)

\* the guards run() holds: _mem_lock_guard (held, mem_size) and, on Windows,
\* _working_set_resize_guard (set_size: the sizes to restore, <<>> for None)
NoGuard == [held |-> FALSE, mem_size |-> 0, set_size |-> <<>>]
NoReturn == [kind |-> "", tested_men_len |-> 0, mlocked |-> FALSE,
             reports |-> <<>>, cause |-> ""]
ReturnErr(kind, cause) == [NoReturn EXCEPT !.kind = kind, !.cause = cause]
\* a bug: the length reported is the one run() was called with
ReturnOk_input_len(len, mlocked, rs) ==
    [NoReturn EXCEPT !.kind = "Ok", !.tested_men_len = Len(memory),
                     !.mlocked = mlocked, !.reports = rs]
\* run()'s Ok(MemtestReportList { tested_men_len, mlocked, reports })
ReturnOk(len, mlocked, rs) ==
    [NoReturn EXCEPT !.kind = "Ok", !.tested_men_len = len,
                     !.mlocked = mlocked, !.reports = rs]

Call(op, len, ok) == [op |-> op, len |-> len, ok |-> ok]

Finished(w) == w.pc \in {"done", "panicked"}

\* what Instant::now() can answer next: the clock is monotonic
Later == {t \in env.clock : t >= now}

\* run()'s `memory.len() < MIN_MEMORY_LEN`
insufficient_rejects_minimum(len) == len <= MIN_MEMORY_LEN
insufficient(len) == len < MIN_MEMORY_LEN

\* run() up to the lock: the length check and the deadline
Run ==
    /\ pc = "call"
    /\ IF insufficient(Len(memory))
       THEN /\ ret' = ReturnErr("Other", "Insufficient memory length")
            /\ pc' = "done"
            /\ UNCHANGED <<now, deadline, slice_len>>
       ELSE /\ \E t \in Later :
                 /\ now' = t
                 /\ deadline' = t + cfg.timeout
            /\ slice_len' = Len(memory)
            /\ pc' = IF cfg.mem_lock_mode = "Disabled" THEN "tests"
                     ELSE IF env.os = "windows" THEN "working_set"
                     ELSE "lock"
            /\ ret' = ret
    /\ UNCHANGED <<cfg, env, memory, fault, guard, sys, test_idx, workers,
                   joined, acc, reports>>

\* a bug: the guard is dropped as soon as it is returned
MemLockGuard_dropped(mem_size) == NoGuard
\* MemLockGuard { base_ptr, mem_size }, bound to _mem_lock_guard
MemLockGuard(mem_size) ==
    [held |-> TRUE, mem_size |-> mem_size, set_size |-> guard.set_size]

\* a bug: every mode that locks may shrink
allow_mem_resize_when_locking(mode) == mode # "Disabled"
\* run()'s `matches!(mode, MemLockMode::Resizable)`
allow_mem_resize(mode) == mode = "Resizable"

\* a bug: the length goes to the limit of the platform, no page is taken off
new_len_limit_only(len) == env.max_mem_lock \div WORD_SIZE
\* a bug: the limit of the platform is not looked at
new_len_a_page_less(len) == len - env.usize_per_page
\* memory_resize_and_lock's new_len, for len >= usize_per_page
new_len(len) == Min(env.max_mem_lock \div WORD_SIZE, len - env.usize_per_page)

\* whether mlock succeeds on len words: the platform locks up to
\* env.lockable words, and says itself what it does with an empty range
mlock(len) == IF len = 0 THEN env.zero_locks ELSE len <= env.lockable

\* unix::memory_resize_and_lock: one turn of its loop
MemoryResizeAndLock ==
    /\ pc = "lock"
    /\ LET mem_size == slice_len * WORD_SIZE
           ok == mlock(slice_len)
       IN /\ sys' = [sys EXCEPT !.calls = Append(@, Call("mlock", slice_len, ok))]
          /\ IF ok
             THEN /\ guard' = MemLockGuard(mem_size)
                  /\ pc' = "tests"
                  /\ UNCHANGED <<slice_len, ret>>
             ELSE IF env.errno # "ENOMEM"
             THEN /\ ret' = ReturnErr("MemLockFailed", "mlock failed")
                  /\ pc' = "done"
                  /\ UNCHANGED <<slice_len, guard>>
             ELSE IF ~allow_mem_resize(cfg.mem_lock_mode)
             THEN /\ ret' = ReturnErr("MemLockFailed",
                                      "mlock failed to lock requested memory size")
                  /\ pc' = "done"
                  /\ UNCHANGED <<slice_len, guard>>
             ELSE IF ~env.rlimit_ok
             THEN /\ ret' = ReturnErr("MemLockFailed", "Failed to get RLIMIT_MEMLOCK")
                  /\ pc' = "done"
                  /\ UNCHANGED <<slice_len, guard>>
             ELSE IF slice_len < env.usize_per_page
             THEN /\ ret' = ReturnErr("MemLockFailed",
                       "Failed to lock any memory, memory size has been decremented to 0")
                  /\ pc' = "done"
                  /\ UNCHANGED <<slice_len, guard>>
             ELSE /\ slice_len' = new_len(slice_len)
                  /\ UNCHANGED <<pc, guard, ret>>
    /\ UNCHANGED <<cfg, env, memory, fault, now, deadline, test_idx, workers,
                   joined, acc, reports>>

\* the process working set: the sizes of the last SetProcessWorkingSetSize
\* that succeeded, or the ones the process started with
SetSize ==
    LET set == {i \in 1 .. Len(sys.calls) :
                   /\ sys.calls[i].op \in {"replace_set_size", "restore_set_size"}
                   /\ sys.calls[i].ok}
    IN IF set = {} THEN env.set_size
       ELSE sys.calls[CHOOSE i \in set : \A j \in set : j <= i].len

\* usize::saturating_mul
saturating_mul(a, b) == Min(a * b, ALL_ONES)

\* windows::replace_set_size, called by run() when a lock will be attempted
ReplaceSetSize ==
    /\ pc = "working_set"
    /\ LET memsize == Len(memory) * WORD_SIZE
           sizes == <<saturating_mul(memsize, 2), saturating_mul(memsize, 4)>>
           failed == ReturnErr("Other", "failed to replace process working set size")
       IN IF ~cfg.allow_working_set_resize
          THEN /\ pc' = "virtual_lock"
               /\ UNCHANGED <<guard, sys, ret>>
          ELSE IF ~env.get_set_size_ok
          THEN /\ ret' = failed
               /\ pc' = "done"
               /\ UNCHANGED <<guard, sys>>
          ELSE /\ sys' = [sys EXCEPT !.calls =
                             Append(@, Call("replace_set_size", sizes,
                                            env.replace_ok))]
               /\ IF env.replace_ok
                  THEN /\ guard' = [guard EXCEPT !.set_size = SetSize]
                       /\ pc' = "virtual_lock"
                       /\ ret' = ret
                  ELSE /\ ret' = failed
                       /\ pc' = "done"
                       /\ guard' = guard
    /\ UNCHANGED <<cfg, env, memory, fault, now, deadline, slice_len,
                   test_idx, workers, joined, acc, reports>>

\* a bug: the guards are dropped in the order of their declaration
Released_set_size_first ==
    LET restored == IF guard.set_size # <<>>
                    THEN Append(sys.calls, Call("restore_set_size", guard.set_size,
                                                env.restore_ok))
                    ELSE sys.calls
        unlocked == IF guard.held
                    THEN Append(restored,
                                Call(IF env.os = "windows" THEN "VirtualUnlock"
                                     ELSE "munlock", guard.mem_size, TRUE))
                    ELSE restored
    IN [sys EXCEPT !.calls = unlocked]

\* the guards of run() go out of scope, the last declared first: the memory
\* lock is released, then (Windows) the working set sizes are restored
Released ==
    LET unlocked == IF guard.held
                    THEN Append(sys.calls,
                                Call(IF env.os = "windows" THEN "VirtualUnlock"
                                     ELSE "munlock", guard.mem_size, TRUE))
                    ELSE sys.calls
        restored == IF guard.set_size # <<>>
                    THEN Append(unlocked, Call("restore_set_size", guard.set_size,
                                               env.restore_ok))
                    ELSE unlocked
    IN [sys EXCEPT !.calls = restored]

\* whether VirtualLock succeeds on len words
VirtualLock(len) == IF len = 0 THEN env.zero_locks ELSE len <= env.lockable

\* windows::memory_resize_and_lock's new_len, for len >= usize_per_page
windows_new_len(len) == Min(SetSize[1] \div WORD_SIZE, len - env.usize_per_page)

\* windows::memory_resize_and_lock: one turn of its loop; an Err leaves
\* run() through `?`, which drops the working set guard
WindowsMemoryResizeAndLock ==
    /\ pc = "virtual_lock"
    /\ LET mem_size == slice_len * WORD_SIZE
           ok == VirtualLock(slice_len)
           called == [sys EXCEPT !.calls = Append(@, Call("VirtualLock", slice_len, ok))]
           dropped == [called EXCEPT !.calls =
                          IF guard.set_size # <<>>
                          THEN Append(@, Call("restore_set_size", guard.set_size,
                                              env.restore_ok))
                          ELSE @]
           cause == IF env.errno # "ERROR_WORKING_SET_QUOTA"
                    THEN "VirtualLock failed to lock memroy"
                    ELSE IF ~allow_mem_resize(cfg.mem_lock_mode)
                    THEN "VirtualLock failed to lock requested memory size"
                    ELSE IF ~env.get_set_size_ok
                    THEN "failed to get process working set"
                    ELSE IF slice_len < env.usize_per_page
                    THEN "Failed to lock any memory, memory size has been decremented to 0"
                    ELSE ""
       IN IF ok
          THEN /\ guard' = MemLockGuard(mem_size)
               /\ sys' = called
               /\ pc' = "tests"
               /\ UNCHANGED <<slice_len, ret>>
          ELSE IF cause # ""
          THEN /\ ret' = ReturnErr("MemLockFailed", cause)
               /\ sys' = dropped
               /\ guard' = NoGuard
               /\ pc' = "done"
               /\ UNCHANGED slice_len
          ELSE /\ slice_len' = windows_new_len(slice_len)
               /\ sys' = called
               /\ UNCHANGED <<pc, guard, ret>>
    /\ UNCHANGED <<cfg, env, memory, fault, now, deadline, test_idx, workers,
                   joined, acc, reports>>

\* a panic unwinds run() and drops the guard
Unwound(to) == IF to = "panicked" THEN Released ELSE sys

\* run_tests: the head of the for loop and the start of the test's threads
\* (a region shrunk to no word at all divides by zero)
Dispatch ==
    /\ pc = "tests"
    /\ test_idx <= Len(cfg.test_types)
    /\ IF cfg.allow_multithread
       THEN LET num_threads == Min(env.num_cpus, slice_len)
            IN IF num_threads = 0
               THEN /\ pc' = "panicked"
                    /\ workers' = <<>>
               ELSE LET chunk_size == slice_len \div num_threads
                        offs == ChunkOffsets(slice_len, chunk_size)
                    IN /\ workers' = [k \in DOMAIN offs |->
                                        NewWorker(offs[k], chunk_size, deadline)]
                       /\ pc' = "running"
       ELSE /\ workers' = <<NewWorker(0, slice_len, deadline)>>
            /\ pc' = "running"
    /\ joined' = 0
    /\ acc' = Pass
    /\ sys' = [Unwound(pc') EXCEPT !.dispatched = @ + 1]
    /\ guard' = IF pc' = "panicked" THEN NoGuard ELSE guard
    /\ UNCHANGED <<cfg, env, memory, fault, now, deadline, slice_len,
                   test_idx, reports, ret>>

\* a thread of the current test takes a step of the test
WorkerStep(k) ==
    /\ pc = "running"
    /\ k \in DOMAIN workers
    /\ ~Finished(workers[k])
    /\ LET kind == cfg.test_types[test_idx]
           w == workers[k]
       IN \E t \in (IF StepReadsClock(kind, w) THEN Later ELSE {now}),
             r \in (IF Draws(kind, w) THEN env.random ELSE {0}) :
             \E panics \in (IF w.pc # "start" /\ CheckpointOverflows(w.tc, t)
                            THEN BOOLEAN ELSE {FALSE}) :
                LET s == TestStep(kind, w, memory, t, r, panics)
                IN /\ workers' = [workers EXCEPT ![k] = s.w]
                   /\ memory' = s.mem
                   /\ now' = t
    /\ UNCHANGED <<cfg, env, fault, pc, deadline, slice_len, guard, sys,
                   test_idx, joined, acc, reports, ret>>

\* run_tests without threads: test() has returned, or has panicked
TestReturns ==
    /\ pc = "running"
    /\ ~cfg.allow_multithread
    /\ Finished(workers[1])
    /\ IF workers[1].pc = "panicked"
       THEN /\ pc' = "panicked"
            /\ sys' = Released
            /\ guard' = NoGuard
            /\ acc' = acc
       ELSE /\ pc' = "push"
            /\ acc' = workers[1].result
            /\ UNCHANGED <<sys, guard>>
    /\ UNCHANGED <<cfg, env, memory, fault, now, deadline, slice_len,
                   test_idx, workers, joined, reports, ret>>

\* a bug: the handle is dropped without waiting for the thread
join_returns_at_once(w) == TRUE
\* handle.join() returns once the thread has ended
join_returns(w) == Finished(w)

\* run_tests with threads: the fold joins the next handle
Join ==
    /\ pc = "running"
    /\ cfg.allow_multithread
    /\ joined < Len(workers)
    /\ join_returns(workers[joined + 1])
    /\ acc' = fold_step(acc, join_result(workers[joined + 1]))
    /\ joined' = joined + 1
    /\ pc' = IF joined + 1 = Len(workers) THEN "push" ELSE pc
    /\ UNCHANGED <<cfg, env, memory, fault, now, deadline, slice_len, guard,
                   sys, test_idx, workers, reports, ret>>

\* run_tests' `matches!(test_result, Ok(Fail(_))) && self.allow_early_termination`
terminates_never(test_result, allow_early_termination) == FALSE
terminates_always(test_result, allow_early_termination) ==
    test_result.class = "Fail"
terminates_on_error(test_result, allow_early_termination) ==
    test_result.class # "Pass" /\ allow_early_termination
terminates_early(test_result, allow_early_termination) ==
    test_result.class = "Fail" /\ allow_early_termination

\* run_tests: the report of the test is pushed; a failed test ends the loop
\* when early termination is allowed
PushReport ==
    /\ pc = "push"
    /\ reports' = Append(reports, MemtestReport(cfg.test_types[test_idx], acc))
    /\ IF terminates_early(acc, cfg.allow_early_termination)
       THEN /\ pc' = "return"
            /\ test_idx' = test_idx
       ELSE /\ pc' = "tests"
            /\ test_idx' = test_idx + 1
    /\ workers' = <<>>
    /\ UNCHANGED <<cfg, env, memory, fault, now, deadline, slice_len, guard,
                   sys, joined, acc, ret>>

\* run_tests returns its reports and run() returns the list; the guard drops
Return ==
    /\ \/ pc = "return"
       \/ pc = "tests" /\ test_idx > Len(cfg.test_types)
    /\ ret' = ReturnOk(slice_len, cfg.mem_lock_mode # "Disabled", reports)
    /\ sys' = Released
    /\ guard' = NoGuard
    /\ pc' = "done"
    /\ UNCHANGED <<cfg, env, memory, fault, now, deadline, slice_len,
                   test_idx, workers, joined, acc, reports>>

----------------------------------------------------------------------------
(* The initial states *)

Region(len, v) == [i \in 1 .. len |-> v]

\* a region of len words: healthy with every word v, or with one stuck word
Regions(len, vals, stuck) ==
    {[mem |-> Region(len, v), fault |-> NoFault] : v \in vals}
    \cup {[mem |-> [Region(len, v) EXCEPT ![at] = sv],
           fault |-> [at |-> at, val |-> sv]] :
            v \in vals, at \in 1 .. len, sv \in stuck}

\* a healthy region of zeros
Region0(len) == [mem |-> Region(len, 0), fault |-> NoFault]

Memtester(test_types, timeout, mode, mt, et) ==
    [test_types |-> test_types, timeout |-> timeout, mem_lock_mode |-> mode,
     allow_working_set_resize |-> FALSE, allow_multithread |-> mt,
     allow_early_termination |-> et]

\* the platform: every lock succeeds; the clock and random() answer from
\* the given sets
PlainEnv(cpus, clock, random) ==
    [num_cpus |-> cpus, lockable |-> LongLen, zero_locks |-> TRUE,
     errno |-> "ENOMEM", rlimit_ok |-> TRUE,
     max_mem_lock |-> LongLen * WORD_SIZE, usize_per_page |-> USIZE_PER_PAGE,
     clock |-> clock, random |-> random, os |-> "unix"]

\* a Memtester `m` about to run on region `rg` of platform `e`
InitRun(m, e, rg) ==
    /\ cfg = m
    /\ env = e
    /\ memory = rg.mem
    /\ fault = rg.fault
    /\ now = 0
    /\ pc = "call"
    /\ deadline = 0
    /\ slice_len = 0
    /\ guard = NoGuard
    /\ sys = [calls |-> <<>>, dispatched |-> 0, initial |-> rg.mem]
    /\ test_idx = 1
    /\ workers = <<>>
    /\ joined = 0
    /\ acc = Pass
    /\ reports = <<>>
    /\ ret = NoReturn

Singles == {<<k>> : k \in MemtestKind}
AllKinds ==
    <<"OwnAddressBasic", "OwnAddressRepeat", "RandomVal", "Xor", "Sub", "Mul",
      "Div", "Or", "And", "SeqInc", "SolidBits", "Checkerboard", "BlockSeq">>
\* the tests short enough to follow thread by thread
ShortKinds == {"OwnAddressBasic", "RandomVal", "Xor", "SeqInc"}
Pairs(kinds) == {<<a, b>> : a \in kinds, b \in kinds}
Modes == {"Resizable", "FixedSize", "Disabled"}
AroundMin == {MIN_MEMORY_LEN - 1, MIN_MEMORY_LEN, MIN_MEMORY_LEN + 1}

\* runs whose deadline is the start instant, in every locking mode
InitTimeout ==
    \E len \in AroundMin,
       tt \in {<<>>, AllKinds} \cup Singles,
       et \in BOOLEAN,
       mode \in Modes :
       InitRun(Memtester(tt, 0, mode, FALSE, et),
               PlainEnv(1, Clock, {1}), Region0(len))

\* a healthy region, one whose first word is stuck, one whose last word is
FewRegions(len) ==
    {rg \in Regions(len, {0}, {0}) : rg.fault.at \in {0, 1, len}}

\* short tests on healthy and on faulty regions, without threads
InitFailures ==
    \E len \in {MIN_MEMORY_LEN, MIN_MEMORY_LEN + 1},
       tt \in Pairs({"OwnAddressBasic", "RandomVal", "Xor"})
              \cup {<<"SeqInc", "Sub", "OwnAddressBasic">>},
       to \in {1, LongTimeout},
       et \in BOOLEAN :
       \E rg \in FewRegions(len) :
          InitRun(Memtester(tt, to, "Disabled", FALSE, et),
                  PlainEnv(1, Clock, {0, ALL_ONES}), rg)

\* short tests with threads, under a clock too coarse to tick during the run
InitThreads ==
    \E tt \in {<<"OwnAddressBasic">>, <<"RandomVal", "OwnAddressBasic">>,
               <<"Xor", "RandomVal">>},
       to \in {0, LongTimeout},
       et \in BOOLEAN,
       cpus \in 1 .. MaxCpus :
       \E rg \in FewRegions(MIN_MEMORY_LEN) :
          InitRun(Memtester(tt, to, "Disabled", TRUE, et),
                  PlainEnv(cpus, {0}, {0, ALL_ONES}), rg)

\* every test on a healthy region, with time to finish
InitAllKinds ==
    \E et \in BOOLEAN :
       InitRun(Memtester(AllKinds, LongTimeout, "FixedSize", FALSE, et),
               PlainEnv(1, Clock, {1}), Region0(MIN_MEMORY_LEN))

\* the lengths handed to the locking loop
LockLens == {MIN_MEMORY_LEN, MIN_MEMORY_LEN + 1, LongLen}
\* the answers of getrlimit(RLIMIT_MEMLOCK), in bytes
MemLockLimits == {0, (MIN_MEMORY_LEN - 1) * WORD_SIZE, LongLen * WORD_SIZE}

\* a platform that refuses locks: above `lockable` words with errno
LockEnv(cpus, lockable, zero_locks, errno, rlimit_ok, max_mem_lock) ==
    [PlainEnv(cpus, {0}, {0}) EXCEPT !.lockable = lockable,
                                     !.zero_locks = zero_locks,
                                     !.errno = errno,
                                     !.rlimit_ok = rlimit_ok,
                                     !.max_mem_lock = max_mem_lock]

\* one short test, with and without threads, on a platform that refuses
\* some locks
InitLocking ==
    \E len \in LockLens, mode \in Modes, mt \in BOOLEAN,
       lockable \in 0 .. LongLen, zero_locks \in BOOLEAN,
       errno \in {"ENOMEM", "EPERM"}, rlimit_ok \in BOOLEAN,
       max_mem_lock \in MemLockLimits :
       InitRun(Memtester(<<"OwnAddressBasic">>, LongTimeout, mode, mt, FALSE),
               LockEnv(1, lockable, zero_locks, errno, rlimit_ok, max_mem_lock),
               Region0(len))

Init == InitTimeout \/ InitFailures \/ InitThreads \/ InitAllKinds \/ InitLocking

Next ==
    \/ Run
    \/ MemoryResizeAndLock
    \/ Dispatch
    \/ \E k \in 1 .. Len(workers) : WorkerStep(k)
    \/ TestReturns
    \/ Join
    \/ PushReport
    \/ Return

Spec == Init /\ [][Next]_vars

----------------------------------------------------------------------------
(* One test function, called on a slice of any length *)

TestDeadlines == {0, 1, LongTimeout}

\* MemtestKind::run(memory, TimeoutChecker::new(deadline)) is entered
InitTest ==
    \E kind \in MemtestKind, len \in 0 .. MaxLen, dl \in TestDeadlines :
       \E rg \in FewRegions(len) :
          /\ cfg = Memtester(<<kind>>, dl, "Disabled", FALSE, FALSE)
          /\ env = PlainEnv(1, Clock, {0, ALL_ONES})
          /\ memory = rg.mem
          /\ fault = rg.fault
          /\ now = 0
          /\ pc = "running"
          /\ deadline = dl
          /\ slice_len = len
          /\ guard = NoGuard
          /\ sys = [calls |-> <<>>, dispatched |-> 1, initial |-> rg.mem]
          /\ test_idx = 1
          /\ workers = <<NewWorker(0, len, dl)>>
          /\ joined = 0
          /\ acc = Pass
          /\ reports = <<>>
          /\ ret = NoReturn

NextTest == \E k \in 1 .. Len(workers) : WorkerStep(k)

SpecTest == InitTest /\ [][NextTest]_vars

----------------------------------------------------------------------------
(* The fold over the joined threads, on any results *)

MaxWorkers == 3

\* what a thread can hand to join(): a panic, or a result of its test
Handles ==
    {[panicked |-> TRUE, result |-> NoResult]}
    \cup {[panicked |-> FALSE, result |-> r] :
            r \in {Pass, Timeout,
                   Fail(UnexpectedValue(AddressOf(0), 0, ALL_ONES)),
                   Fail(MismatchedValues(AddressOf(0), 0, AddressOf(1), 1)),
                   Other("Insufficient memory length for two-regions memtest")}}

Handle(k, h) ==
    IF h.panicked THEN [NewWorker(k - 1, 1, 0) EXCEPT !.pc = "panicked"]
    ELSE Returned(NewWorker(k - 1, 1, 0), h.result)

\* every thread of a test has finished and none is joined yet
InitFold ==
    \E n \in 1 .. MaxWorkers :
       \E hs \in [1 .. n -> Handles] :
          /\ cfg = Memtester(<<"Xor">>, 0, "Disabled", TRUE, FALSE)
          /\ env = PlainEnv(n, {0}, {0})
          /\ memory = Region(n, 0)
          /\ fault = NoFault
          /\ now = 0
          /\ pc = "running"
          /\ deadline = 0
          /\ slice_len = n
          /\ guard = NoGuard
          /\ sys = [calls |-> <<>>, dispatched |-> 1, initial |-> Region(n, 0)]
          /\ test_idx = 1
          /\ workers = [k \in 1 .. n |-> Handle(k, hs[k])]
          /\ joined = 0
          /\ acc = Pass
          /\ reports = <<>>
          /\ ret = NoReturn

NextFold == Join

SpecFold == InitFold /\ [][NextFold]_vars

----------------------------------------------------------------------------
(* The first of two tests with threads, on any results of its threads *)

\* every thread of the first test has finished, with the results
\* env.handles, and none is joined yet; a second test is configured
InitReduce ==
    \E n \in 1 .. MaxWorkers, et \in BOOLEAN :
       \E hs \in [1 .. n -> Handles] :
          /\ cfg = Memtester(<<"Xor", "RandomVal">>, 0, "Disabled", TRUE, et)
          /\ env = [num_cpus |-> n, clock |-> {0}, random |-> {0},
                    os |-> "unix", handles |-> hs]
          /\ memory = Region(n, 0)
          /\ fault = NoFault
          /\ now = 0
          /\ pc = "running"
          /\ deadline = 0
          /\ slice_len = n
          /\ guard = NoGuard
          /\ sys = [calls |-> <<>>, dispatched |-> 1, initial |-> Region(n, 0)]
          /\ test_idx = 1
          /\ workers = [k \in 1 .. n |-> Handle(k, hs[k])]
          /\ joined = 0
          /\ acc = Pass
          /\ reports = <<>>
          /\ ret = NoReturn

NextReduce ==
    \/ Join
    \/ PushReport
    \/ Dispatch
    \/ \E k \in 1 .. Len(workers) : WorkerStep(k)
    \/ Return

SpecReduce == InitReduce /\ [][NextReduce]_vars

----------------------------------------------------------------------------
(* run() on Windows *)

\* the working set sizes (min, max, in bytes) a process may start with
SetSizes == {<<MIN_MEMORY_LEN * WORD_SIZE, LongLen * WORD_SIZE>>,
             <<2 * LongLen * WORD_SIZE, 4 * LongLen * WORD_SIZE>>}

\* a Windows platform: VirtualLock locks up to `lockable` words and fails
\* with `errno` above; the working set calls succeed or fail as told
WindowsEnv(lockable, zero_locks, errno, set_size, get_ok, replace_ok, restore_ok) ==
    [num_cpus |-> 1, lockable |-> lockable, zero_locks |-> zero_locks,
     errno |-> errno, usize_per_page |-> USIZE_PER_PAGE, clock |-> {0},
     random |-> {0}, os |-> "windows", set_size |-> set_size,
     get_set_size_ok |-> get_ok, replace_ok |-> replace_ok,
     restore_ok |-> restore_ok]

InitWindows ==
    \E len \in LockLens,
       mode \in Modes,
       resize \in BOOLEAN,
       lockable \in {0, MIN_MEMORY_LEN, LongLen},
       zero_locks \in BOOLEAN,
       errno \in {"ERROR_WORKING_SET_QUOTA", "ERROR_NOACCESS"},
       set_size \in SetSizes,
       get_set_size_ok \in BOOLEAN,
       replace_ok \in BOOLEAN,
       restore_ok \in BOOLEAN :
       InitRun([Memtester(<<"OwnAddressBasic">>, LongTimeout, mode, FALSE, FALSE)
                   EXCEPT !.allow_working_set_resize = resize],
               WindowsEnv(lockable, zero_locks, errno, set_size,
                          get_set_size_ok, replace_ok, restore_ok),
               Region0(len))

NextWindows ==
    \/ Run
    \/ ReplaceSetSize
    \/ WindowsMemoryResizeAndLock
    \/ Dispatch
    \/ \E k \in 1 .. Len(workers) : WorkerStep(k)
    \/ TestReturns
    \/ PushReport
    \/ Return

SpecWindows == InitWindows /\ [][NextWindows]_vars

----------------------------------------------------------------------------
(* OwnAddressBasic on a region with a poisoned word *)

\* a region of zeros whose word i holds the complement of its own address:
\* healthy, or with that word stuck at the complement
PoisonedRegions(len) ==
    {[mem |-> [Region(len, 0) EXCEPT ![i + 1] = Not(AddressOf(i))],
      fault |-> IF stuck THEN [at |-> i + 1, val |-> Not(AddressOf(i))]
                ELSE NoFault] :
        i \in 0 .. len - 1, stuck \in BOOLEAN}

InitPoisoned ==
    \E len \in {MIN_MEMORY_LEN, MIN_MEMORY_LEN + 1}, et \in BOOLEAN :
       \E rg \in PoisonedRegions(len) :
          InitRun(Memtester(<<"OwnAddressBasic">>, LongTimeout, "Disabled",
                            FALSE, et),
                  PlainEnv(1, Clock, {0}), rg)

NextPoisoned ==
    \/ Run
    \/ Dispatch
    \/ \E k \in 1 .. Len(workers) : WorkerStep(k)
    \/ TestReturns
    \/ PushReport
    \/ Return

SpecPoisoned == InitPoisoned /\ [][NextPoisoned]_vars

----------------------------------------------------------------------------
(* The locking loop of both platforms *)

InitLock == InitLocking \/ InitWindows

NextLock == Next \/ ReplaceSetSize \/ WindowsMemoryResizeAndLock

SpecLock == InitLock /\ [][NextLock]_vars

----------------------------------------------------------------------------
(* The constructors of Memtester *)

\* the vec! all_tests_random_order starts from
ALL_TESTS ==
    <<"OwnAddressRepeat", "RandomVal", "Xor", "Sub", "Mul", "Div", "Or",
      "And", "SeqInc", "SolidBits", "Checkerboard", "BlockSeq">>

\* slice.swap(i, j), on indices from 0
Swap(v, i, j) == [v EXCEPT ![i + 1] = v[j + 1], ![j + 1] = v[i + 1]]

\* test_types.shuffle(rng): for i from len - 1 down to 1, swap(i, a draw in
\* 0 ..= i)
RECURSIVE shuffle_from(_, _, _)
shuffle_from(v, draws, i) ==
    IF i < 1 THEN v ELSE shuffle_from(Swap(v, i, draws[i]), draws, i - 1)
shuffle(v, draws) == shuffle_from(v, draws, Len(v) - 1)

\* the draws of the model: each swap is with the first element or with
\* itself
ShuffleDraws ==
    {[i \in 1 .. Len(ALL_TESTS) - 1 |-> IF i \in first THEN 0 ELSE i] :
        first \in SUBSET (1 .. Len(ALL_TESTS) - 1)}

\* Memtester::from_test_types
from_test_types(args, test_types) ==
    [test_types |-> test_types, timeout |-> args.timeout,
     mem_lock_mode |-> args.mem_lock_mode,
     allow_working_set_resize |-> args.allow_working_set_resize,
     allow_multithread |-> args.allow_multithread,
     allow_early_termination |-> args.allow_early_termination]

\* Memtester::all_tests_random_order
all_tests_random_order(args, draws) ==
    from_test_types(args, shuffle(ALL_TESTS, draws))

\* MemtesterArgs
MemtesterArgs(timeout, mode, mt, et) ==
    [timeout |-> timeout, mem_lock_mode |-> mode,
     allow_working_set_resize |-> FALSE, allow_multithread |-> mt,
     allow_early_termination |-> et]

\* a call of a constructor: its name, its arguments and what the random
\* number generator will answer
NewCalls ==
    {[new |-> "all_tests_random_order", args |-> a, test_types |-> <<>>,
      draws |-> d] :
        a \in {MemtesterArgs(0, "Disabled", FALSE, FALSE)}, d \in ShuffleDraws}
    \cup {[new |-> "from_test_types", args |-> a, test_types |-> tt,
           draws |-> <<>>] :
            a \in {MemtesterArgs(to, "Resizable", mt, TRUE) :
                      to \in {0, LongTimeout}, mt \in BOOLEAN},
            tt \in {<<>>, AllKinds} \cup Singles \cup Pairs(ShortKinds)}

\* no Memtester is built yet; env.call is the constructor call to come
InitNew ==
    \E c \in NewCalls :
       /\ cfg = from_test_types(c.args, <<>>)
       /\ env = [call |-> c]
       /\ memory = Region(MIN_MEMORY_LEN, 0)
       /\ fault = NoFault
       /\ now = 0
       /\ pc = "new"
       /\ deadline = 0
       /\ slice_len = 0
       /\ guard = NoGuard
       /\ sys = [calls |-> <<>>, dispatched |-> 0,
                 initial |-> Region(MIN_MEMORY_LEN, 0)]
       /\ test_idx = 1
       /\ workers = <<>>
       /\ joined = 0
       /\ acc = Pass
       /\ reports = <<>>
       /\ ret = NoReturn

AllTestsRandomOrder ==
    /\ pc = "new"
    /\ env.call.new = "all_tests_random_order"
    /\ cfg' = all_tests_random_order(env.call.args, env.call.draws)
    /\ pc' = "call"
    /\ UNCHANGED <<env, memory, fault, now, deadline, slice_len, guard, sys,
                   test_idx, workers, joined, acc, reports, ret>>

FromTestTypes ==
    /\ pc = "new"
    /\ env.call.new = "from_test_types"
    /\ cfg' = from_test_types(env.call.args, env.call.test_types)
    /\ pc' = "call"
    /\ UNCHANGED <<env, memory, fault, now, deadline, slice_len, guard, sys,
                   test_idx, workers, joined, acc, reports, ret>>

NextNew == AllTestsRandomOrder \/ FromTestTypes

SpecNew == InitNew /\ [][NextNew]_vars

----------------------------------------------------------------------------
(* The same suite run twice on the same region *)

\* what the healthy regions of this family hold before the first run
PriorContents == {0, 1, ALL_ONES}

\* a suite of one or two tests, without threads and with time to finish, is
\* about to run on a healthy region; sys.first will hold the reports of the
\* first run and sys.runs counts the calls of run()
InitAgain ==
    \E tt \in Singles \cup {<<"Xor", "RandomVal">>},
       v \in PriorContents :
       /\ cfg = Memtester(tt, LongTimeout, "Disabled", FALSE, FALSE)
       /\ env = PlainEnv(1, {0, 1}, {0, ALL_ONES})
       /\ memory = Region(MIN_MEMORY_LEN, v)
       /\ fault = NoFault
       /\ now = 0
       /\ pc = "call"
       /\ deadline = 0
       /\ slice_len = 0
       /\ guard = NoGuard
       /\ sys = [calls |-> <<>>, dispatched |-> 0,
                 initial |-> Region(MIN_MEMORY_LEN, v), first |-> <<>>,
                 runs |-> 1]
       /\ test_idx = 1
       /\ workers = <<>>
       /\ joined = 0
       /\ acc = Pass
       /\ reports = <<>>
       /\ ret = NoReturn

\* run() has returned Ok and the caller calls it again, on the memory the
\* first run left
RunAgain ==
    /\ pc = "done"
    /\ ret.kind = "Ok"
    /\ sys.runs = 1
    /\ sys' = [sys EXCEPT !.first = ret.reports, !.runs = 2]
    /\ pc' = "call"
    /\ ret' = NoReturn
    /\ reports' = <<>>
    /\ test_idx' = 1
    /\ UNCHANGED <<cfg, env, memory, fault, now, deadline, slice_len, guard,
                   workers, joined, acc>>

NextAgain ==
    \/ Run
    \/ Dispatch
    \/ \E k \in 1 .. Len(workers) : WorkerStep(k)
    \/ TestReturns
    \/ PushReport
    \/ Return
    \/ RunAgain

SpecAgain == InitAgain /\ [][NextAgain]_vars

----------------------------------------------------------------------------
(* The report list run() returns *)

Done == pc = "done"
ReturnedOk == pc = "done" /\ ret.kind = "Ok"
Classes(rs) == {rs[i].outcome.class : i \in 1 .. Len(rs)}
Errors == {"Timeout", "Other"}

\* C1: all_pass() is true exactly when every report's outcome is Ok(Pass),
\* for every report list run_tests builds, the empty one included.
C1_AllPassIffEveryReportPasses ==
    all_pass(reports) <=> (\A i \in 1 .. Len(reports) : reports[i].outcome = Pass)

\* a returned list that starts with a pass, holds a failure and does not pass
C1_Witness ==
    /\ ReturnedOk
    /\ Len(ret.reports) >= 2
    /\ ret.reports[1].outcome = Pass
    /\ "Fail" \in Classes(ret.reports)
    /\ ~all_pass(ret.reports)

\* C3: run() on a region shorter than MIN_MEMORY_LEN returns Err(Other) and
\* has not locked, dispatched a test or written a word; a region of exactly
\* MIN_MEMORY_LEN words is not rejected.
C3_ShortRegionRejected ==
    /\ Len(memory) < MIN_MEMORY_LEN =>
          /\ sys.calls = <<>>
          /\ sys.dispatched = 0
          /\ memory = sys.initial
          /\ pc \in {"call", "done"}
          /\ Done => ret.kind = "Other"
    /\ (Len(memory) = MIN_MEMORY_LEN /\ Done) => ret.kind # "Other"

\* a run on a short region has returned, though it was to lock and to test
C3_Witness ==
    /\ Done
    /\ Len(memory) = MIN_MEMORY_LEN - 1
    /\ cfg.mem_lock_mode # "Disabled"
    /\ cfg.test_types # <<>>
    /\ ret.kind = "Other"

\* the reports are those of the first n configured tests, in order
IsPrefix(rs, tt) ==
    /\ Len(rs) <= Len(tt)
    /\ \A i \in 1 .. Len(rs) : rs[i].test_type = tt[i]

\* C4: with early termination the report list is the prefix of the test
\* list that ends at the first Ok(Fail) (the whole list when no test fails):
\* the failing report is the last one and no later test was dispatched.
C4_EarlyTerminationPrefix ==
    (ReturnedOk /\ cfg.allow_early_termination) =>
       LET rs == ret.reports
           n == Len(rs)
       IN /\ IsPrefix(rs, cfg.test_types)
          /\ \A i \in 1 .. n - 1 : rs[i].outcome.class # "Fail"
          /\ n < Len(cfg.test_types) => n >= 1 /\ rs[n].outcome.class = "Fail"
          /\ sys.dispatched = n

\* the second of three tests failed and the third never ran
C4_Witness ==
    /\ ReturnedOk
    /\ cfg.allow_early_termination
    /\ Len(cfg.test_types) = 3
    /\ Len(ret.reports) = 2
    /\ ret.reports[1].outcome = Pass
    /\ ret.reports[2].outcome.class = "Fail"

\* C5: without early termination there is exactly one report per configured
\* test, in the configured order and tagged with its kind, whatever the
\* outcomes.
C5_OneReportPerTest ==
    (ReturnedOk /\ ~cfg.allow_early_termination) =>
       /\ Len(ret.reports) = Len(cfg.test_types)
       /\ IsPrefix(ret.reports, cfg.test_types)
       /\ sys.dispatched = Len(cfg.test_types)

\* a first test that failed was followed by the second
C5_Witness ==
    /\ ReturnedOk
    /\ ~cfg.allow_early_termination
    /\ Len(ret.reports) = 2
    /\ ret.reports[1].outcome.class = "Fail"

\* C6: a test that ends in Err(Timeout) or Err(Other) does not stop the
\* suite, with or without early termination: if a test is configured after
\* it, that test was dispatched and has its report.
C6_ErrorsDoNotStopTheSuite ==
    ReturnedOk =>
       \A i \in 1 .. Len(ret.reports) :
          (ret.reports[i].outcome.class \in Errors /\ i < Len(cfg.test_types))
             => /\ i < Len(ret.reports)
                /\ sys.dispatched > i

\* under early termination, a test after an Err(Other) and one after an
\* Err(Timeout) have run
C6_Witness ==
    /\ ReturnedOk
    /\ cfg.allow_early_termination
    /\ Len(ret.reports) = 2
    /\ ret.reports[1].outcome.class = "Other"
    /\ ret.reports[2].outcome.class \in {"Pass", "Fail"}

\* C7: with a timeout of 0, a run without threads that tested at least
\* MIN_MEMORY_LEN words reports Err(Timeout) for every configured test.
C7_ZeroTimeoutTimesOutEveryTest ==
    (ReturnedOk /\ cfg.timeout = 0 /\ ~cfg.allow_multithread
        /\ ret.tested_men_len >= MIN_MEMORY_LEN) =>
       /\ Len(ret.reports) = Len(cfg.test_types)
       /\ \A i \in 1 .. Len(ret.reports) :
             /\ ret.reports[i].test_type = cfg.test_types[i]
             /\ ret.reports[i].outcome = Timeout

\* the thirteen tests have all timed out
C7_Witness ==
    /\ ReturnedOk
    /\ cfg.timeout = 0
    /\ ~cfg.allow_multithread
    /\ cfg.test_types = AllKinds
    /\ Len(ret.reports) = 13
    /\ Classes(ret.reports) = {"Timeout"}

----------------------------------------------------------------------------
(* A test on healthy memory *)

----------------------------------------------------------------------------
(* The reduction *)

\* the classes of the results joined so far
JoinedClasses == {join_result(workers[k]).class : k \in 1 .. joined}

\* the first thread, in chunk order, whose result is of class c
FirstOf(c) ==
    CHOOSE k \in 1 .. joined :
       /\ join_result(workers[k]).class = c
       /\ \A i \in 1 .. k - 1 : join_result(workers[i]).class # c

\* C8: the threads' results reduce by priority: Err(Other) if any thread
\* has one, else Err(Timeout) if any, else Ok(Fail) if any, and Ok(Pass)
\* only if every thread passed.
C8_ReductionPriority ==
    cfg.allow_multithread =>
       acc.class = IF "Other" \in JoinedClasses THEN "Other"
                   ELSE IF "Timeout" \in JoinedClasses THEN "Timeout"
                   ELSE IF "Fail" \in JoinedClasses THEN "Fail"
                   ELSE "Pass"

\* a failure, a timeout and a pass have reduced to the timeout
C8_Witness ==
    /\ pc = "push"
    /\ joined = 3
    /\ join_result(workers[1]).class = "Fail"
    /\ join_result(workers[2]).class = "Timeout"
    /\ join_result(workers[3]).class = "Pass"
    /\ acc = Timeout

\* C9: when several threads fail and none errs, the failure reported is the
\* one of the first failing thread in chunk order; when several threads
\* return Err(Other), the first one's is reported.
C9_FirstInChunkOrderWins ==
    cfg.allow_multithread =>
       /\ ("Fail" \in JoinedClasses /\ JoinedClasses \cap Errors = {})
             => acc = join_result(workers[FirstOf("Fail")])
       /\ "Other" \in JoinedClasses
             => acc = join_result(workers[FirstOf("Other")])

\* two threads failed differently, and two erred differently
C9_Witness ==
    /\ pc = "push"
    /\ joined = 3
    /\ join_result(workers[1]).class = "Pass"
    /\ join_result(workers[2]).class = "Fail"
    /\ join_result(workers[3]).class = "Fail"
    /\ join_result(workers[2]) # join_result(workers[3])
    /\ acc = join_result(workers[2])

----------------------------------------------------------------------------
(* The partition *)

\* C10: with threads, a test runs on exactly min(cpu_count, region_words)
\* workers of region_words / threads words each, and the words given to no
\* worker are fewer than those given to the workers.
C10_ExactlyThreadsWorkers ==
    (pc = "running" /\ cfg.allow_multithread) =>
       LET threads == Min(env.num_cpus, slice_len)
           chunk == slice_len \div threads
       IN /\ Len(workers) = threads
          /\ \A k \in 1 .. Len(workers) : workers[k].len = chunk
          /\ slice_len - Len(workers) * chunk < Len(workers) * chunk

----------------------------------------------------------------------------
(* The threads of a test *)

\* the words of the chunk handed to thread k
ChunkOf(k) == workers[k].lo .. (workers[k].lo + workers[k].len - 1)

\* C11: during a test with threads the chunks handed to the threads are
\* pairwise disjoint and inside the region, and every word a thread has read
\* or written is in its own chunk: no word is touched by two threads.
C11_ChunksDisjoint ==
    cfg.allow_multithread =>
       /\ \A k \in 1 .. Len(workers) :
             /\ ChunkOf(k) \subseteq 0 .. (slice_len - 1)
             /\ workers[k].accesses \subseteq ChunkOf(k)
       /\ \A j, k \in 1 .. Len(workers) :
             j # k => /\ ChunkOf(j) \cap ChunkOf(k) = {}
                      /\ workers[j].accesses \cap workers[k].accesses = {}

\* two threads have each been through both halves of a chunk of two words
C11_Witness ==
    /\ cfg.allow_multithread
    /\ pc = "running"
    /\ Len(workers) = 2
    /\ \A k \in 1 .. 2 :
          /\ workers[k].len >= 2
          /\ workers[k].pc = "done"
          /\ workers[k].accesses = ChunkOf(k)

\* the threads still running
Running == {k \in 1 .. Len(workers) : workers[k].pc \notin {"done", "panicked"}}

\* C12: with threads, every thread of a test has finished when the test's
\* reduced result exists and when the next test is dispatched: a thread
\* runs only while run_tests is inside the scope of its own test.
C12_JoinBarrier ==
    cfg.allow_multithread =>
       /\ pc # "running" => Running = {}
       /\ pc = "push" => joined = Len(workers) /\ joined >= 1
       /\ Running # {} => sys.dispatched = test_idx

\* the threads of the second test have all been joined
C12_Witness ==
    /\ cfg.allow_multithread
    /\ pc = "push"
    /\ test_idx = 2
    /\ Len(workers) >= 2
    /\ joined = Len(workers)
    /\ \A k \in 1 .. Len(workers) : workers[k].checks > 0

----------------------------------------------------------------------------
(* The memory lock *)

Locks == cfg.mem_lock_mode # "Disabled"
\* the positions in sys.calls of the calls of op that answered ok
CallsOf(op, ok) ==
    {i \in 1 .. Len(sys.calls) : sys.calls[i].op = op /\ sys.calls[i].ok = ok}
Locked == CallsOf("mlock", TRUE)
Unlocked == CallsOf("munlock", TRUE)

\* C13: in the Resizable and FixedSize modes the lock is taken before the
\* first test starts and is held while every test runs; it is released
\* exactly once, and when run() has returned, Ok or Err, no lock it took is
\* still held.
C13_LockHeldWhileTesting ==
    Locks =>
       /\ sys.dispatched > 0 => Cardinality(Locked) = 1
       /\ pc \in {"tests", "running", "push", "return"} =>
             /\ guard.held
             /\ Unlocked = {}
       /\ Cardinality(Unlocked) <= Cardinality(Locked)
       /\ Done =>
             /\ ~guard.held
             /\ Cardinality(Unlocked) = Cardinality(Locked)
             /\ \A i \in Locked, j \in Unlocked :
                   /\ i < j
                   /\ sys.calls[j].len = sys.calls[i].len * WORD_SIZE

\* a run that locked after a shrink has tested and has released its lock
C13_Witness ==
    /\ Locks
    /\ ReturnedOk
    /\ Len(ret.reports) = 1
    /\ Cardinality(CallsOf("mlock", FALSE)) >= 1
    /\ Cardinality(Locked) = 1
    /\ Cardinality(Unlocked) = 1
    /\ ~guard.held

\* C14: a failed lock that is not a quota failure (in either locking mode),
\* or a quota failure in FixedSize mode, makes run() return MemLockFailed
\* with no shrink and no test attempted; a FixedSize run that succeeds has
\* tested the full input length.
C14_LockFailureAborts ==
    /\ (/\ Locks
        /\ CallsOf("mlock", FALSE) # {}
        /\ env.errno # "ENOMEM" \/ cfg.mem_lock_mode = "FixedSize")
          => /\ Done
             /\ ret.kind = "MemLockFailed"
             /\ Len(sys.calls) = 1
             /\ sys.calls[1].len = Len(memory)
             /\ slice_len = Len(memory)
             /\ sys.dispatched = 0
             /\ reports = <<>>
             /\ memory = sys.initial
    /\ (ReturnedOk /\ cfg.mem_lock_mode = "FixedSize")
          => /\ ret.tested_men_len = Len(memory)
             /\ \A i \in Locked : sys.calls[i].len = Len(memory)

\* a quota failure has ended a FixedSize run on the longest region
C14_Witness ==
    /\ Done
    /\ cfg.mem_lock_mode = "FixedSize"
    /\ env.errno = "ENOMEM"
    /\ Len(memory) = LongLen
    /\ CallsOf("mlock", FALSE) = {1}
    /\ ret.kind = "MemLockFailed"

\* C15: in Resizable mode the locking loop never retries the lock on a
\* slice of zero words and never returns one: a shrink that would leave no
\* word fails with MemLockFailed.
C15_NeverZeroWords ==
    cfg.mem_lock_mode = "Resizable" =>
       /\ \A i \in 1 .. Len(sys.calls) :
             sys.calls[i].op = "mlock" => sys.calls[i].len > 0
       /\ pc \in {"lock", "tests"} => slice_len > 0
       /\ ReturnedOk => ret.tested_men_len > 0

\* the lengths of the slices mlock was called on, in order
LockLen(i) == sys.calls[i].len
NumLocks == Cardinality({i \in 1 .. Len(sys.calls) : sys.calls[i].op = "mlock"})

\* C16: in Resizable mode, the limit of the platform not changing, the
\* first shrink sets the length to min(limit / word size, length - words
\* per page) and every later shrink takes exactly the words of a page off.
C16_ShrinkSequence ==
    cfg.mem_lock_mode = "Resizable" =>
       \A i \in 1 .. NumLocks - 1 :
          /\ sys.calls[i].op = "mlock" /\ sys.calls[i + 1].op = "mlock"
          /\ IF i = 1
             THEN LockLen(2) = Min(env.max_mem_lock \div WORD_SIZE,
                                   LockLen(1) - env.usize_per_page)
             ELSE LockLen(i + 1) = LockLen(i) - env.usize_per_page

\* the first shrink went down to the limit, below a page less, and a second
\* shrink followed
C16_Witness ==
    /\ cfg.mem_lock_mode = "Resizable"
    /\ NumLocks >= 3
    /\ LockLen(1) = LongLen
    /\ LockLen(2) = env.max_mem_lock \div WORD_SIZE
    /\ LockLen(2) < LockLen(1) - env.usize_per_page
    /\ LockLen(3) = LockLen(2) - env.usize_per_page

\* the words the threads of the current test were handed
Covered == UNION {ChunkOf(k) : k \in 1 .. Len(workers)}

\* C17: with lock mode Disabled run() makes no lock or unlock call, tests
\* the whole input region and returns mlocked = false with the input length
\* as tested length; in the other two modes every Ok result has mlocked =
\* true and the length of the slice that was locked as tested length.
C17_DisabledSkipsLocking ==
    /\ ~Locks =>
          /\ sys.calls = <<>>
          /\ ~guard.held
          /\ pc # "lock"
          /\ pc \in {"tests", "running", "push", "return"} => slice_len = Len(memory)
          /\ (pc = "running" /\ ~cfg.allow_multithread) =>
                Covered = 0 .. (Len(memory) - 1)
          /\ ReturnedOk => /\ ~ret.mlocked
                           /\ ret.tested_men_len = Len(memory)
    /\ (Locks /\ ReturnedOk) =>
          /\ ret.mlocked
          /\ Cardinality(Locked) = 1
          /\ \A i \in Locked : ret.tested_men_len = sys.calls[i].len

\* a run has returned the length it locked after shrinking
C17_Witness ==
    /\ Locks
    /\ ReturnedOk
    /\ ret.mlocked
    /\ ret.tested_men_len < Len(memory)
    /\ ret.tested_men_len >= MIN_MEMORY_LEN
    /\ Len(ret.reports) = 1

----------------------------------------------------------------------------
(* The timeout checker *)

\* C18: in every state of every test the TimeoutChecker's completed_iter
\* is at most the expected_iter handed to init(): the test calls check()
\* at most expected_iter times.
C18_CompletedAtMostExpected ==
    \A k \in 1 .. Len(workers) :
       LET w == workers[k] IN
       /\ w.tc.completed_iter <= w.tc.expected_iter
       /\ w.tc.completed_iter <= w.checks
       /\ w.checks <= w.tc.expected_iter

\* SolidBits has passed on the longest region: every expected iteration
\* was completed
C18_Witness ==
    /\ cfg.test_types = <<"SolidBits">>
    /\ Len(workers) = 1
    /\ workers[1].len = MaxLen
    /\ workers[1].result = Pass
    /\ workers[1].tc.expected_iter = 2 * SOLID_BITS_NUM_RUNS * (MaxLen \div 2)
    /\ workers[1].tc.completed_iter = workers[1].tc.expected_iter

\* C19: over the life of a TimeoutChecker (new, init, then check calls) the
\* checkpoint never decreases, for every value iter_until_next_checkpoint
\* can take, the largest u64 included.
C19_CheckpointNeverDecreases ==
    [][\A k \in 1 .. Len(workers) :
          k <= Len(workers') =>
             workers'[k].tc.checkpoint >= workers[k].tc.checkpoint]_vars

\* C20: check_time() is never entered with completed_iter = 0: whatever
\* expected_iter init() was given (0 and the values up to FIRST_CHECKPOINT
\* included), the first check() takes the fast path, and a check() that
\* reads the clock divides by a completed_iter of at least 1.
C20_CheckTimeAfterAnIteration ==
    \A k \in 1 .. Len(workers) :
       LET w == workers[k] IN
       /\ w.pc \in {"write", "read"} =>
             /\ w.checks = 0 => w.tc.completed_iter < w.tc.checkpoint
             /\ ReadsClock(w.tc) => w.tc.completed_iter >= 1
       /\ w.pc = "panicked" => w.tc.completed_iter >= 1

\* a test of two iterations: its second check() went through check_time,
\* one iteration completed, and set the next checkpoint
C20_Witness ==
    /\ Len(workers) = 1
    /\ workers[1].tc.expected_iter = 2
    /\ workers[1].checks = 2
    /\ workers[1].tc.completed_iter = 2
    /\ workers[1].tc.checkpoint > 2
    /\ workers[1].tc.test_start_time < now

----------------------------------------------------------------------------
(* The tests on short and odd slices *)

\* the test the threads are running
Kind == cfg.test_types[test_idx]
\* the tests that compare two halves of their slice
TwoRegion == MemtestKind \ SingleRegion

\* C21: every two-region test called on a slice of fewer than 2 words
\* returns Err(Other), never Ok(Pass).
C21_TwoRegionNeedsTwoWords ==
    \A k \in 1 .. Len(workers) :
       (/\ Kind \in TwoRegion
        /\ workers[k].len < 2
        /\ workers[k].pc = "done")
          => workers[k].result.class = "Other"

\* the final word of thread k's slice, and whether the slice is odd
Final(k) == workers[k].lo + workers[k].len - 1
OddSlice(k) == workers[k].len % 2 = 1

----------------------------------------------------------------------------
(* The test list of a suite *)

\* the elements of a sequence
Range(v) == {v[i] : i \in 1 .. Len(v)}

\* C23: the test list of a suite built by all_tests_random_order is a
\* permutation of the 13 test kinds, each exactly once, and a suite built
\* from an explicit list keeps that list in that order.
C23_AllThirteenKinds ==
    pc = "call" =>
       /\ env.call.new = "all_tests_random_order" =>
             /\ Len(cfg.test_types) = Cardinality(MemtestKind)
             /\ Range(cfg.test_types) = MemtestKind
       /\ env.call.new = "from_test_types" =>
             cfg.test_types = env.call.test_types

----------------------------------------------------------------------------
(* A thread of a test panics *)

\* the threads of the current test that panicked
Panicked == {k \in 1 .. Len(workers) : workers[k].pc = "panicked"}

\* C24: when a thread of a multithreaded test panics, the panic does not
\* leave run(), the report of that test is Err(Other), and the loop goes on
\* to the next configured test.
C24_WorkerPanicIsReported ==
    [][(cfg.allow_multithread /\ Panicked # {}) =>
          /\ pc' # "panicked"
          /\ pc = "push" =>
                /\ reports' = Append(reports, MemtestReport(Kind, acc))
                /\ reports'[Len(reports')].outcome.class = "Other"
                /\ pc' = "tests"
                /\ test_idx' = test_idx + 1]_vars

\* the test after the one with the panicked thread is running
C24_Witness ==
    /\ cfg.allow_multithread
    /\ pc = "running"
    /\ test_idx = 2
    /\ reports[1].outcome = Other("Thread panicked")

----------------------------------------------------------------------------
(* What SolidBits and Checkerboard leave in memory *)

\* half_len of thread k's slice
HalfLen(k) == workers[k].len \div 2

\* thread k's test has returned Ok(Pass) on healthy memory
PassedHealthy(k) == Healthy /\ workers[k].pc = "done" /\ workers[k].result = Pass

\* C25 as stated: after SolidBits or Checkerboard returns Ok(Pass) on
\* healthy memory, every word of both halves holds ALL-ONES.
C25_HalvesAllOnes ==
    \A k \in 1 .. Len(workers) :
       (Kind \in {"SolidBits", "Checkerboard"} /\ PassedHealthy(k)) =>
          \A i \in 0 .. 2 * HalfLen(k) - 1 :
             vread(memory, workers[k].lo + i) = ALL_ONES

\* C25 amended: after SolidBits or Checkerboard returns Ok(Pass) on healthy
\* memory, the two halves are equal, word for word, and hold the pattern of
\* the last run: at offset j of each half, SolidBits leaves 0 for even j and
\* ALL-ONES for odd j, Checkerboard leaves 0x55.. for even j and 0xAA.. for
\* odd j.
C25_HalvesHoldLastPattern ==
    \A k \in 1 .. Len(workers) :
       (Kind \in {"SolidBits", "Checkerboard"} /\ PassedHealthy(k)) =>
          \A j \in 0 .. HalfLen(k) - 1 :
             LET even == IF Kind = "SolidBits" THEN 0 ELSE FillBytes(85)
                 last == IF j % 2 = 0 THEN even ELSE Not(even)
             IN /\ vread(memory, workers[k].lo + j) = last
                /\ vread(memory, workers[k].lo + HalfLen(k) + j) = last

\* Checkerboard has passed on a healthy slice whose halves have two words
C25_Witness ==
    /\ Kind = "Checkerboard"
    /\ Len(workers) = 1
    /\ PassedHealthy(1)
    /\ HalfLen(1) = 2
    /\ vread(memory, 1) = Not(FillBytes(85))

----------------------------------------------------------------------------
(* The suite run twice *)

\* the outcome classes of a report list, in order
ClassSeq(rs) == [i \in 1 .. Len(rs) |-> rs[i].outcome.class]

----------------------------------------------------------------------------
(* The indices the tests address *)

\* the word indices of thread k's slice
SliceOf(k) == workers[k].lo .. (workers[k].lo + workers[k].len - 1)

\* the indices the next iteration of thread k's inner loop addresses
NextAccesses(k) ==
    IF workers[k].pc \notin {"write", "read"} THEN {}
    ELSE IF Kind \in SingleRegion THEN {workers[k].lo + workers[k].j}
    ELSE {workers[k].lo + workers[k].j,
          workers[k].lo + HalfLen(k) + workers[k].j}

\* C27: every volatile read or write of a test addresses a word of the
\* slice the test was given, whatever its length (odd, 0 and 1 included);
\* in the two-region tests the index half + j of the second half stays
\* below the length.
C27_AccessesInsideSlice ==
    \A k \in 1 .. Len(workers) :
       /\ workers[k].accesses \subseteq SliceOf(k)
       /\ NextAccesses(k) \subseteq SliceOf(k)
       /\ (Kind \in TwoRegion /\ workers[k].pc \in {"write", "read"}) =>
             /\ workers[k].j < HalfLen(k)
             /\ HalfLen(k) + workers[k].j < workers[k].len

\* a two-region test has gone through both halves of an odd slice
C27_Witness ==
    /\ Kind = "SeqInc"
    /\ Len(workers) = 1
    /\ workers[1].len = MaxLen
    /\ workers[1].pc = "done"
    /\ workers[1].accesses = 0 .. (2 * HalfLen(1) - 1)

----------------------------------------------------------------------------
(* The working set of the process, on Windows *)

\* the positions in the call log of the calls of `op`
Calls(op) == {i \in 1 .. Len(sys.calls) : sys.calls[i].op = op}
\* the resizes that succeeded, and the restores
Resized == {i \in Calls("replace_set_size") : sys.calls[i].ok}
Restores == Calls("restore_set_size")
\* run() is over: it returned or it unwound
Exited == pc \in {"done", "panicked"}

\* C28: on Windows, with allow_working_set_resize and a lock mode other
\* than Disabled, after a successful resize the sizes read before it are
\* restored exactly once on every way out of run() (a return of Ok, a
\* failure to lock, a panic of the test), not earlier, and after the memory
\* lock is released; with lock mode Disabled the working set is never
\* changed.
C28_WorkingSetRestoredOnce ==
    /\ cfg.mem_lock_mode = "Disabled" =>
          /\ Calls("replace_set_size") \cup Restores = {}
          /\ SetSize = env.set_size
    /\ (cfg.mem_lock_mode # "Disabled" /\ cfg.allow_working_set_resize) =>
          /\ Cardinality(Resized) <= 1
          /\ \A i \in Restores :
                /\ sys.calls[i].len = env.set_size
                /\ \E r \in Resized : r < i
                /\ i = Len(sys.calls)
                /\ \A l \in CallsOf("VirtualLock", TRUE) :
                      \E u \in Calls("VirtualUnlock") : l < u /\ u < i
          /\ Restores # {} => Exited
          /\ (Exited /\ Resized # {}) =>
                /\ Cardinality(Restores) = 1
                /\ env.restore_ok => SetSize = env.set_size

\* run() resized the working set, failed to lock and has restored the sizes
C28_Witness ==
    /\ Exited
    /\ ret.kind = "MemLockFailed"
    /\ Resized # {}
    /\ Cardinality(Restores) = 1
    /\ SetSize = env.set_size

----------------------------------------------------------------------------
(* OwnAddressBasic and the word it reports *)

\* the index of the word poisoned before the run
PoisonedWord ==
    CHOOSE i \in 0 .. Len(memory) - 1 : sys.initial[i + 1] = Not(AddressOf(i))

\* the one report the claim expects
PoisonReport ==
    MemtestReport("OwnAddressBasic",
                  Fail(UnexpectedValue(AddressOf(PoisonedWord),
                                       AddressOf(PoisonedWord),
                                       Not(AddressOf(PoisonedWord)))))

OwnAddress(k, i) ==
    vread(memory, workers[k].lo + i) = AddressOf(workers[k].lo + i)

\* C30: OwnAddressBasic returns Ok(Fail(UnexpectedValue)) exactly when a
\* word of the read pass reads back a value other than its address: while
\* the read pass runs every word read so far matched; a Fail reports the
\* word the pass stopped at, the lowest that does not match, with expected
\* its address and actual the value read; a Pass means every word matched.
C30_FirstMismatchReported ==
    \A k \in 1 .. Len(workers) :
       LET w == workers[k]
       IN Kind = "OwnAddressBasic" =>
             /\ w.pc = "read" => \A i \in 0 .. w.j - 1 : OwnAddress(k, i)
             /\ (w.pc = "done" /\ w.result.class = "Fail") =>
                   /\ w.j \in 1 .. w.len
                   /\ ~OwnAddress(k, w.j - 1)
                   /\ \A i \in 0 .. w.j - 2 : OwnAddress(k, i)
                   /\ w.result.failure.type = "UnexpectedValue"
                   /\ w.result.failure.address1 = AddressOf(w.lo + w.j - 1)
                   /\ w.result.failure.value1 = AddressOf(w.lo + w.j - 1)
                   /\ w.result.failure.value2 = vread(memory, w.lo + w.j - 1)
             /\ (w.pc = "done" /\ w.result.class = "Pass") =>
                   \A i \in 0 .. w.len - 1 : OwnAddress(k, i)
             /\ w.pc = "done" => w.result.class \in {"Pass", "Fail", "Timeout"}

\* the read pass has stopped at the last word of the slice, which is stuck
C30_Witness ==
    /\ Kind = "OwnAddressBasic"
    /\ Len(workers) = 1
    /\ workers[1].len = MaxLen
    /\ workers[1].pc = "done"
    /\ workers[1].result.class = "Fail"
    /\ workers[1].j = MaxLen
    /\ fault.at = MaxLen

----------------------------------------------------------------------------
(* compare_regions *)

\* the tests that return what compare_regions returns
ReturnsCompare == TwoRegion \ DropsCompare

\* the two words of pair i of thread k's slice
First(k, i) == workers[k].lo + i
Second(k, i) == workers[k].lo + HalfLen(k) + i
PairEqual(k, i) == vread(memory, First(k, i)) = vread(memory, Second(k, i))

\* C31: a compare pass over a slice of N words goes through the pairs
\* (i, half + i), half = N div 2, in ascending i: while it runs every pair
\* below its index was equal; it returns MismatchedValues for the lowest
\* pair that differs, with the two addresses and the two values read; when
\* no pair differs it has compared exactly N div 2 pairs and returns Pass.
C31_CompareReportsFirstMismatch ==
    \A k \in 1 .. Len(workers) :
       LET w == workers[k]
       IN /\ (Kind \in TwoRegion /\ w.pc = "read") =>
                /\ w.j < HalfLen(k)
                /\ \A i \in 0 .. w.j - 1 : PairEqual(k, i)
          /\ (Kind \in ReturnsCompare /\ w.pc = "done"
                 /\ w.result.class = "Fail") =>
                /\ w.j \in 1 .. HalfLen(k)
                /\ ~PairEqual(k, w.j - 1)
                /\ \A i \in 0 .. w.j - 2 : PairEqual(k, i)
                /\ w.result.failure.type = "MismatchedValues"
                /\ w.result.failure.address1 = AddressOf(First(k, w.j - 1))
                /\ w.result.failure.value1 = vread(memory, First(k, w.j - 1))
                /\ w.result.failure.address2 = AddressOf(Second(k, w.j - 1))
                /\ w.result.failure.value2 = vread(memory, Second(k, w.j - 1))
          /\ (Kind \in ReturnsCompare /\ w.pc = "done"
                 /\ w.result.class = "Pass") =>
                /\ w.j = HalfLen(k)
                /\ \A i \in 0 .. HalfLen(k) - 1 : PairEqual(k, i)

\* the compare pass has stopped at the last pair, whose second word is stuck
C31_Witness ==
    /\ Kind = "Xor"
    /\ Len(workers) = 1
    /\ workers[1].len = MIN_MEMORY_LEN
    /\ fault.at = MIN_MEMORY_LEN
    /\ workers[1].pc = "done"
    /\ workers[1].result.class = "Fail"
    /\ workers[1].j = HalfLen(1)
    /\ workers[1].j >= 2

----------------------------------------------------------------------------
(* One check() for every inner iteration *)

\* the words written or read by the loops of thread k's test; the reset of
\* the read-modify-write tests, which comes before any check(), is not
\* counted
LoopAccesses(k) == IF Kind \in ReadModifyWrite THEN {} ELSE workers[k].accesses

\* the words one inner iteration touches
WordsPerIteration == IF Kind \in SingleRegion THEN 1 ELSE 2

\* C32: for each of the 13 kinds, a test that returns Ok(Pass) has called
\* check() exactly expected_iter times (completed_iter = expected_iter), and
\* every write of a pattern and every read of a compare comes after the
\* check() of its own inner iteration: the loops have touched no more words
\* than the checks made allow, and none before the first check.
C32_OneCheckPerIteration ==
    \A k \in 1 .. Len(workers) :
       LET w == workers[k]
       IN /\ (w.pc = "done" /\ w.result = Pass) =>
                /\ w.checks = w.tc.expected_iter
                /\ w.tc.completed_iter = w.tc.expected_iter
          /\ Cardinality(LoopAccesses(k)) <= WordsPerIteration * w.checks
          /\ w.tc.completed_iter <= w.checks

----------------------------------------------------------------------------
(* The checkpoint stays ahead of the count *)

\* C33: after init() and after every check() that returns Ok,
\* completed_iter is at most checkpoint, so that a check() reads the clock
\* exactly when completed_iter equals checkpoint.
C33_CompletedAtMostCheckpoint ==
    \A k \in 1 .. Len(workers) :
       LET tc == workers[k].tc
       IN /\ tc.completed_iter <= tc.checkpoint
          /\ (workers[k].pc \in {"write", "read"} /\ ReadsClock(tc)) =>
                tc.completed_iter = tc.checkpoint

----------------------------------------------------------------------------
(* The shrink-and-retry loop ends *)

\* run() is in memory_resize_and_lock
InLockLoop == pc \in {"lock", "virtual_lock"}
\* the attempts to lock made so far
Attempts == Calls("mlock") \cup Calls("VirtualLock")

\* C34: in Resizable mode (a page holds at least one word) every turn of
\* the shrink-and-retry loop either ends it, with the lock held or with
\* MemLockFailed, or retries on strictly fewer words than the attempt
\* before; the loop makes at most one attempt more than the region has
\* words, whatever the platform answers.
C34_ShrinkLoopEnds ==
    [][(cfg.mem_lock_mode = "Resizable" /\ InLockLoop /\ env.usize_per_page >= 1) =>
          /\ Cardinality(Attempts') = Cardinality(Attempts) + 1
          /\ Cardinality(Attempts') <= Len(memory) + 1
          /\ IF pc' = pc
             THEN /\ slice_len' < slice_len
                  /\ slice_len' >= 0
                  /\ ~guard'.held
             ELSE \/ pc' = "tests" /\ guard'.held
                  \/ pc' = "done" /\ ret'.kind = "MemLockFailed"]_vars

\* the loop is about to make its third attempt, on fewer words each time
C34_Witness ==
    /\ cfg.mem_lock_mode = "Resizable"
    /\ InLockLoop
    /\ Cardinality(Attempts) = 2
    /\ sys.calls[Len(sys.calls)].len < sys.calls[Len(sys.calls) - 1].len
    /\ slice_len < sys.calls[Len(sys.calls)].len

----------------------------------------------------------------------------
(* The slice the tests ran on *)

\* the slice run() tested is the first slice_len words of its input
TestedPrefix ==
    /\ ret.tested_men_len = slice_len
    /\ slice_len <= Len(memory)
    /\ Covered \subseteq 0 .. slice_len - 1

\* C35: whenever run() returns Ok, the slice the tests ran on has at least
\* MIN_MEMORY_LEN words, also after the region was shrunk in Resizable mode,
\* and it is a prefix of the input region.
C35_TestedAtLeastMinimum ==
    ReturnedOk => (ret.tested_men_len >= MIN_MEMORY_LEN /\ TestedPrefix)

----------------------------------------------------------------------------
(* Early termination with threads *)

\* the classes of what the threads of the first test handed to join()
FirstTestClasses ==
    {join_result(Handle(k, env.handles[k])).class : k \in DOMAIN env.handles}

\* the second test has been dispatched, or is about to be
GoesOn == sys.dispatched = 2 \/ (pc = "tests" /\ test_idx = 2)

\* C36: with threads and early termination, the suite stops after a test
\* exactly when the reduced outcome of the test is Ok(Fail); when a thread
\* returns Ok(Fail) and another thread of the same test returns
\* Err(Timeout) or Err(Other), or panics, the report is the error and the
\* next configured test is dispatched.
C36_StopsOnlyOnReducedFail ==
    (cfg.allow_multithread /\ cfg.allow_early_termination /\ Len(reports) >= 1) =>
       /\ reports[1].outcome.class = "Fail" =>
             /\ ~GoesOn
             /\ Len(reports) = 1
             /\ pc \in {"return", "done"}
       /\ reports[1].outcome.class # "Fail" => GoesOn
       /\ ("Fail" \in FirstTestClasses /\ FirstTestClasses \cap Errors # {}) =>
             /\ reports[1].outcome.class \in Errors
             /\ GoesOn

\* a thread failed, another timed out: the report is the timeout and the
\* second test is running
C36_Witness ==
    /\ cfg.allow_early_termination
    /\ FirstTestClasses = {"Fail", "Timeout"}
    /\ reports = <<MemtestReport("Xor", Timeout)>>
    /\ sys.dispatched = 2
    /\ pc = "running"
    /\ test_idx = 2

====
